---- MODULE Spec2Model ----
(***************************************************************************)
(* Interactive visual-overlay subsystem of multi-scale-frontend.           *)
(*                                                                         *)
(*   Spec          ObjectDetectionView: region list, hover / selection,    *)
(*                 hit test, mask images and the asynchronous outline      *)
(*                 cache (src/components/ObjectDetectionView.tsx)          *)
(*   SpecFair      Spec with every started outline computation completing  *)
(*   SpecSelector  BoundingBoxSelector: drag-to-box tool                   *)
(*                 (src/components/SearchResults.tsx, lines 180-405)       *)
(*   SpecMapper    original -> display -> original coordinate round trip   *)
(*   SpecOutline   createOutline at the level of pixels: the edge-pixel     *)
(*                 loop over a decoded mask                                *)
(*   SpecUpload    SearchInterface: validation, resize, size check,        *)
(*                 preview and detection of an uploaded file               *)
(*                 (src/unnamed/part_002)                                  *)
(*   SpecSearch    SearchInterface with the searches started by clicks on  *)
(*                 detected regions (handleObjectClick)                    *)
(*   SpecResize    preprocessImage: the dimensions of the resized image    *)
(*                                                                         *)
(* Display-space numbers are JavaScript doubles in the source.  They are   *)
(* modelled exactly: a product p * (displaySize / originalSize) is the     *)
(* rational (p * displaySize) / originalSize, comparisons are made by      *)
(* cross-multiplication and Math.round is floor(x + 1/2).  0 * Infinity    *)
(* (a division by a zero display size) is NaN.                             *)
(***************************************************************************)
EXTENDS Integers, Sequences, FiniteSets, TLC

VARIABLES
    \* ---- ObjectDetectionView ----
    objects,            \* prop: the region list (SegmentedObject[])
    imageWidth,         \* prop: original width
    imageHeight,        \* prop: original height
    hoveredObjectId,    \* state
    clickedObjectId,    \* state
    maskImages,         \* state: Map object_id -> raw mask url
    maskOutlines,       \* state: Map object_id -> outline url
    imageInfo,          \* state: stored display geometry
    imgRect,            \* live geometry of the <img> relative to the container
    effectRuns,         \* runs of the mask effect still referenced, oldest first
    onObjectClickCalls, \* calls of onObjectClick made by the latest handler
    lastClick,          \* <<id>> when the latest handler was the click of region id
    \* ---- BoundingBoxSelector ----
    selImageUrl,        \* prop imageUrl (an image identity)
    enabled,            \* prop enabled
    selImgRect,         \* live geometry of the <img> relative to the container
    originalImageSize,  \* state
    probes,             \* Image() probes of the size effect not yet loaded
    isDrawing,          \* state
    bbox,               \* state: <<>> (null) or <<box>>
    startPos,           \* state: <<>> (null) or <<pos>>
    currentPos,         \* state: <<>> (null) or <<pos>>
    onBboxChangeCalls,  \* calls of onBboxChange made by the latest handler
    \* ---- coordinate round trip ----
    mapGeom,            \* geometry snapshot
    mapPoint,           \* point in original space
    mapDisplay,         \* its image in display space
    mapBack,            \* the display point mapped back to original space
    mapPc,
    \* ---- createOutline, pixel level ----
    maskRaster,         \* the decoded mask: width, height, alpha of each pixel
    outlineRaster,      \* pixels of the outline canvas painted by fillRect
    rasterPc,
    \* ---- SearchInterface ----
    image,              \* state: <<>> (null) or <<file>>
    preview,            \* state: <<>> (null) or <<file>>, the file the data url shows
    error,              \* state: <<>> (null) or <<message>>
    detectionLoading,   \* state
    detectedObjects,    \* state: <<>> ([]) or <<file>>, the regions detected in file
    siImageSize,        \* state: <<imageWidth, imageHeight>>
    procs,              \* processImageFile invocations suspended at an await
    readers,            \* files whose FileReader has not finished
    previewImgs,        \* files whose preview Image() has not loaded
    uploadResult,       \* <<[file, outcome]>> when the latest step ended the validation,
                        \* resize and size check of an upload
    detectCalls,        \* calls of detectAndSegmentObjects made by the latest step
    searchLoading,      \* state
    searchResults,      \* state: <<>> ([]) or <<request>>, the hits returned for request
    selectedCategory,   \* state: <<>> (null) or <<category>>
    searches,           \* calls of searchProducts not yet settled, oldest first
    \* ---- preprocessImage, dimension computation ----
    resizeIn,           \* img.width, img.height and maxDimension
    resizeOut,          \* canvas.width and canvas.height
    resizePc

overlayVars == <<objects, imageWidth, imageHeight, hoveredObjectId, clickedObjectId,
                 maskImages, maskOutlines, imageInfo, imgRect, effectRuns,
                 onObjectClickCalls, lastClick>>
selectorVars == <<selImageUrl, enabled, selImgRect, originalImageSize, probes, isDrawing,
                  bbox, startPos, currentPos, onBboxChangeCalls>>
mapperVars == <<mapGeom, mapPoint, mapDisplay, mapBack, mapPc>>
rasterVars == <<maskRaster, outlineRaster, rasterPc>>
searchVars == <<searchLoading, searchResults, selectedCategory, searches>>
uploadVars == <<image, preview, error, detectionLoading, detectedObjects, siImageSize,
                procs, readers, previewImgs, uploadResult, detectCalls, searchVars>>
resizeVars == <<resizeIn, resizeOut, resizePc>>
vars == <<overlayVars, selectorVars, mapperVars, rasterVars, uploadVars, resizeVars>>

(***************************************************************************)
(* Bounds of the model                                                     *)
(***************************************************************************)
\* runs of the mask effect that have an unresolved createOutline promise at one time
MaxRuns == 2

(***************************************************************************)
(* Values                                                                  *)
(***************************************************************************)
\* null of hoveredObjectId / clickedObjectId (object ids are positive)
Null == 0
\* a value of an empty Map
EmptyMap == <<>>

MapSet(m, k, v) == [x \in (DOMAIN m) \cup {k} |-> IF x = k THEN v ELSE m[x]]

Max(S) == CHOOSE x \in S : \A y \in S : y <= x

\* `data:image/png;base64,${mask_base64}` of a mask, and the data URL of its outline raster
MaskUrl(m) == [kind |-> "mask", data |-> m]
OutlineUrl(m) == [kind |-> "outline", data |-> m]
NoMask == 0

Box(x1, y1, x2, y2) == [x1 |-> x1, y1 |-> y1, x2 |-> x2, y2 |-> y2]
Region(id, b, m) == [object_id |-> id, bbox |-> b, mask |-> m]

\* original image size reported by the parent: not yet known, or 2 x 2
ImageSizes == {<<0, 0>>, <<2, 2>>}

\* live geometry of the image element: not laid out, or 3 x 2 (scales 3/2 and 1)
Geom(w, h, ox, oy) == [width |-> w, height |-> h, offsetX |-> ox, offsetY |-> oy]
ZeroGeom == Geom(0, 0, 0, 0)
Geoms == {ZeroGeom, Geom(3, 2, 1, 1)}

\* region lists a detection response can carry (object ids unique within a list).  In
\* ListA the small region is listed after the one containing it; ListB reuses object
\* id 1 with another mask and lists the containing region last, so that list order
\* differs from id order and from size order.
ListA == <<Region(1, Box(0, 0, 2, 2), 1), Region(2, Box(1, 0, 2, 1), 2)>>
ListB == <<Region(3, Box(1, 1, 2, 2), NoMask), Region(1, Box(0, 0, 2, 2), 3)>>
RegionLists == {<<>>, ListA, ListB}

MaskedIds(l) == {l[i].object_id : i \in {j \in 1..Len(l) : l[j].mask # NoMask}}
MaskOf(l, id) == (CHOOSE r \in {l[i] : i \in 1..Len(l)} : r.object_id = id).mask

(***************************************************************************)
(* ObjectDetectionView                                                     *)
(***************************************************************************)
\* updateImageInfo: the stored geometry becomes the live one
updateImageInfo == [displayWidth |-> imgRect.width, displayHeight |-> imgRect.height,
                    offsetX |-> imgRect.offsetX, offsetY |-> imgRect.offsetY]

\* getDisplayBbox: <<>> for null, else <<rect>>.  A display coordinate
\* offset + c * (displaySize / originalSize) is held as its numerator over the
\* denominator originalSize (den).
getDisplayBbox(b) ==
    IF \/ imageInfo.displayWidth = 0
       \/ imageInfo.displayHeight = 0
       \/ imageWidth = 0
       \/ imageHeight = 0
    THEN <<>>
    ELSE <<[x1 |-> imageInfo.offsetX * imageWidth + b.x1 * imageInfo.displayWidth,
            y1 |-> imageInfo.offsetY * imageHeight + b.y1 * imageInfo.displayHeight,
            x2 |-> imageInfo.offsetX * imageWidth + b.x2 * imageInfo.displayWidth,
            y2 |-> imageInfo.offsetY * imageHeight + b.y2 * imageInfo.displayHeight,
            denX |-> imageWidth, denY |-> imageHeight]>>

\* lines 220-231: the rect made image-relative, then the inclusive comparison
bboxContainsMouse(d, mouseX, mouseY) ==
    LET bboxImageX1 == d.x1 - imageInfo.offsetX * d.denX
        bboxImageY1 == d.y1 - imageInfo.offsetY * d.denY
        bboxImageX2 == d.x2 - imageInfo.offsetX * d.denX
        bboxImageY2 == d.y2 - imageInfo.offsetY * d.denY
    IN  /\ mouseX * d.denX >= bboxImageX1
        /\ mouseX * d.denX <= bboxImageX2
        /\ mouseY * d.denY >= bboxImageY1
        /\ mouseY * d.denY <= bboxImageY2

\* the loop run upwards: the first region of the list that contains the pointer wins
RECURSIVE hoverScanUp(_, _, _, _)
hoverScanUp(j, i, mouseX, mouseY) ==
    IF j > i THEN Null
    ELSE LET d == getDisplayBbox(objects[j].bbox)
         IN  IF d = <<>> THEN hoverScanUp(j + 1, i, mouseX, mouseY)
             ELSE IF bboxContainsMouse(d[1], mouseX, mouseY) THEN objects[j].object_id
             ELSE hoverScanUp(j + 1, i, mouseX, mouseY)
hoverScanForward(i, mouseX, mouseY) == hoverScanUp(1, i, mouseX, mouseY)

\* lines 214-235: the loop from i down to 1, breaking at the first hit
RECURSIVE hoverScan(_, _, _)
hoverScan(i, mouseX, mouseY) ==
    IF i < 1 THEN Null
    ELSE LET d == getDisplayBbox(objects[i].bbox)
         IN  IF d = <<>> THEN hoverScan(i - 1, mouseX, mouseY)
             ELSE IF bboxContainsMouse(d[1], mouseX, mouseY) THEN objects[i].object_id
             ELSE hoverScan(i - 1, mouseX, mouseY)

\* pointer positions relative to the image element (one step outside on every side)
MouseXs == (-1)..(imgRect.width + 1)
MouseYs == (-1)..(imgRect.height + 1)

overlayIdle == UNCHANGED <<selectorVars, mapperVars, rasterVars, uploadVars, resizeVars>>

\* lines 207-235: the id handleMouseMove passes to setHoveredObjectId for a non-empty
\* list
hitTest(mouseX, mouseY) ==
    IF mouseX < 0 \/ mouseY < 0 \/ mouseX > imgRect.width \/ mouseY > imgRect.height
    THEN Null
    ELSE hoverScan(Len(objects), mouseX, mouseY)

\* lines 199-237: hoveredObjectId as handleMouseMove leaves it; for an empty list it
\* returns before any setHoveredObjectId
hoveredAfterMouseMove(mouseX, mouseY) ==
    IF Len(objects) = 0 THEN hoveredObjectId ELSE hitTest(mouseX, mouseY)

\* handleMouseMove (mouseX, mouseY: e.clientX - imgRect.left, e.clientY - imgRect.top)
handleMouseMove(mouseX, mouseY) ==
    /\ hoveredObjectId' = hoveredAfterMouseMove(mouseX, mouseY)
    /\ onObjectClickCalls' = <<>>
    /\ lastClick' = <<>>
    /\ UNCHANGED <<objects, imageWidth, imageHeight, clickedObjectId, maskImages,
                   maskOutlines, imageInfo, imgRect, effectRuns>>
    /\ overlayIdle

handleMouseLeave ==
    /\ hoveredObjectId' = Null
    /\ onObjectClickCalls' = <<>>
    /\ lastClick' = <<>>
    /\ UNCHANGED <<objects, imageWidth, imageHeight, clickedObjectId, maskImages,
                   maskOutlines, imageInfo, imgRect, effectRuns>>
    /\ overlayIdle

\* a region's elements are rendered only when getDisplayBbox is not null (line 278)
isRendered(i) == getDisplayBbox(objects[i].bbox) # <<>>
shouldShow(i) == hoveredObjectId = objects[i].object_id \/ clickedObjectId = objects[i].object_id

\* onMouseEnter of the invisible hit area of region i (pointer-events: none once shown)
onMouseEnter(i) ==
    /\ isRendered(i)
    /\ ~shouldShow(i)
    /\ hoveredObjectId' = objects[i].object_id
    /\ onObjectClickCalls' = <<>>
    /\ lastClick' = <<>>
    /\ UNCHANGED <<objects, imageWidth, imageHeight, clickedObjectId, maskImages,
                   maskOutlines, imageInfo, imgRect, effectRuns>>
    /\ overlayIdle

\* handleObjectClick selecting without the call of onObjectClick
handleObjectClickSilent(i) ==
    /\ isRendered(i)
    /\ lastClick' = <<objects[i].object_id>>
    /\ clickedObjectId' = IF clickedObjectId = objects[i].object_id THEN Null
                          ELSE objects[i].object_id
    /\ onObjectClickCalls' = <<>>
    /\ UNCHANGED <<objects, imageWidth, imageHeight, hoveredObjectId, maskImages,
                   maskOutlines, imageInfo, imgRect, effectRuns>>
    /\ overlayIdle

\* handleObjectClick without the toggle: every click selects and calls onObjectClick
handleObjectClickNoToggle(i) ==
    /\ isRendered(i)
    /\ lastClick' = <<objects[i].object_id>>
    /\ clickedObjectId' = objects[i].object_id
    /\ onObjectClickCalls' = <<objects[i].object_id>>
    /\ UNCHANGED <<objects, imageWidth, imageHeight, hoveredObjectId, maskImages,
                   maskOutlines, imageInfo, imgRect, effectRuns>>
    /\ overlayIdle

\* handleObjectClick calling onObjectClick in its deselecting branch too
handleObjectClickAlwaysEmit(i) ==
    /\ isRendered(i)
    /\ lastClick' = <<objects[i].object_id>>
    /\ clickedObjectId' = IF clickedObjectId = objects[i].object_id
                          THEN Null ELSE objects[i].object_id
    /\ onObjectClickCalls' = <<objects[i].object_id>>
    /\ UNCHANGED <<objects, imageWidth, imageHeight, hoveredObjectId, maskImages,
                   maskOutlines, imageInfo, imgRect, effectRuns>>
    /\ overlayIdle

\* handleObjectClick(objects[i]), from the onClick of either clickable area of region i
handleObjectClick(i) ==
    /\ isRendered(i)
    /\ lastClick' = <<objects[i].object_id>>
    /\ IF clickedObjectId = objects[i].object_id
       THEN /\ clickedObjectId' = Null
            /\ onObjectClickCalls' = <<>>
       ELSE /\ clickedObjectId' = objects[i].object_id
            /\ onObjectClickCalls' = <<objects[i].object_id>>
    /\ UNCHANGED <<objects, imageWidth, imageHeight, hoveredObjectId, maskImages,
                   maskOutlines, imageInfo, imgRect, effectRuns>>
    /\ overlayIdle

\* lines 357-359: the image of the outline layer of region i, drawn when the region is
\* clicked and has a mask image
outlineLayerImage(i) ==
    IF objects[i].object_id \in DOMAIN maskOutlines
    THEN maskOutlines[objects[i].object_id]
    ELSE maskImages[objects[i].object_id]
outlineLayerShown(i) ==
    /\ isRendered(i)
    /\ clickedObjectId = objects[i].object_id
    /\ objects[i].object_id \in DOMAIN maskImages

\* lines 280-283 for region i
isHovered(i) == hoveredObjectId = objects[i].object_id
isClicked(i) == clickedObjectId = objects[i].object_id
hasMaskUrl(i) == objects[i].object_id \in DOMAIN maskImages

\* lines 317-325: the bounding box outline of region i
hoverOutlineShown(i) == isRendered(i) /\ shouldShow(i) /\ isHovered(i) /\ ~isClicked(i)

\* the category label rendered whenever the visible elements are
labelShownWheneverVisible(i) == isRendered(i) /\ shouldShow(i)

\* lines 394-406: the category label of region i
labelShown(i) == isRendered(i) /\ shouldShow(i) /\ ~isClicked(i)

\* lines 328-347 and 373-390: the mask overlay and the outer glow of region i
maskOverlayShown(i) == isRendered(i) /\ shouldShow(i) /\ isClicked(i) /\ hasMaskUrl(i)
glowShown(i) == isRendered(i) /\ shouldShow(i) /\ isClicked(i) /\ hasMaskUrl(i)

\* A run of the mask effect: its closure's newMaskOutlines and the createOutline
\* promises its async callbacks await.  A run is referenced as long as one of its
\* callbacks is pending; the newest run stays last in effectRuns.
EffectRun(l) ==
    [newMaskOutlines |-> EmptyMap,
     awaiting |-> {[object_id |-> id, maskUrl |-> MaskUrl(MaskOf(l, id))] : id \in MaskedIds(l)}]
liveRuns == SelectSeq(effectRuns, LAMBDA r : r.awaiting # {})

\* the three effects on [objects], run when the parent passes a new list:
\*   lines 111-128  mask images replaced, one createOutline started per masked region,
\*                  each writing into this run's own newMaskOutlines
\*   lines 131-164  updateImageInfo()
\*   lines 193-195  setClickedObjectId(null)
SetObjects(l) ==
    /\ Len(liveRuns) < MaxRuns
    /\ objects' = l
    /\ maskImages' = [id \in MaskedIds(l) |-> MaskUrl(MaskOf(l, id))]
    /\ effectRuns' = Append(liveRuns, EffectRun(l))
    /\ imageInfo' = updateImageInfo
    /\ clickedObjectId' = Null
    /\ onObjectClickCalls' = <<>>
    /\ lastClick' = <<>>
    /\ UNCHANGED <<imageWidth, imageHeight, hoveredObjectId, maskOutlines, imgRect>>
    /\ overlayIdle

\* createOutline resolving with the outline canvas whatever happened to the mask
createOutlineNoFallback(maskUrl, decoded) == OutlineUrl(maskUrl.data)

\* createOutline: the outline raster, or the mask url itself when the mask does not
\* decode (img.onerror) or no 2d context is available
createOutline(maskUrl, decoded) == IF decoded THEN OutlineUrl(maskUrl.data) ELSE maskUrl

\* effectRuns with run k replaced by r; a run without pending callbacks is dropped
\* unless it is the newest, whose closure is then unreferenced too
settleRun(k, r) ==
    IF r.awaiting # {} THEN [effectRuns EXCEPT ![k] = r]
    ELSE IF k = Len(effectRuns)
    THEN [effectRuns EXCEPT ![k] = [newMaskOutlines |-> EmptyMap, awaiting |-> {}]]
    ELSE SubSeq(effectRuns, 1, k - 1) \o SubSeq(effectRuns, k + 1, Len(effectRuns))

\* lines 121-123, the continuation of one async callback of run k after its await
OutlineResolved(k, t, decoded) ==
    /\ t \in effectRuns[k].awaiting
    /\ LET outlineUrl == createOutline(t.maskUrl, decoded)
           newMaskOutlines == MapSet(effectRuns[k].newMaskOutlines, t.object_id, outlineUrl)
       IN  /\ maskOutlines' = newMaskOutlines
           /\ effectRuns' = settleRun(k, [newMaskOutlines |-> newMaskOutlines,
                                          awaiting |-> effectRuns[k].awaiting \ {t}])
    /\ onObjectClickCalls' = <<>>
    /\ lastClick' = <<>>
    /\ UNCHANGED <<objects, imageWidth, imageHeight, hoveredObjectId, clickedObjectId,
                   maskImages, imageInfo, imgRect>>
    /\ overlayIdle

\* the layout of the image element changes (image decoded, container reflow); no
\* listener of the component runs
Reflow(g) ==
    /\ imgRect # g
    /\ imgRect' = g
    /\ onObjectClickCalls' = <<>>
    /\ lastClick' = <<>>
    /\ UNCHANGED <<objects, imageWidth, imageHeight, hoveredObjectId, clickedObjectId,
                   maskImages, maskOutlines, imageInfo, effectRuns>>
    /\ overlayIdle

\* the image element's "load" event or the window's "resize" event: updateImageInfo
GeometryEvent ==
    /\ imageInfo' = updateImageInfo
    /\ UNCHANGED imgRect
    /\ onObjectClickCalls' = <<>>
    /\ lastClick' = <<>>
    /\ UNCHANGED <<objects, imageWidth, imageHeight, hoveredObjectId, clickedObjectId,
                   maskImages, maskOutlines, effectRuns>>
    /\ overlayIdle

\* the parent sets imageWidth / imageHeight (preview decoded, detection response)
SetImageSize(s) ==
    /\ <<imageWidth, imageHeight>> # s
    /\ imageWidth' = s[1]
    /\ imageHeight' = s[2]
    /\ onObjectClickCalls' = <<>>
    /\ lastClick' = <<>>
    /\ UNCHANGED <<objects, hoveredObjectId, clickedObjectId, maskImages, maskOutlines,
                   imageInfo, imgRect, effectRuns>>
    /\ overlayIdle

OverlayInit ==
    /\ objects = <<>>
    /\ imageWidth = 0
    /\ imageHeight = 0
    /\ hoveredObjectId = Null
    /\ clickedObjectId = Null
    /\ maskImages = EmptyMap
    /\ maskOutlines = EmptyMap
    /\ imgRect = ZeroGeom
    /\ imageInfo = [displayWidth |-> 0, displayHeight |-> 0, offsetX |-> 0, offsetY |-> 0]
    /\ effectRuns = <<[newMaskOutlines |-> EmptyMap, awaiting |-> {}]>>
    /\ onObjectClickCalls = <<>>
    /\ lastClick = <<>>

(***************************************************************************)
(* BoundingBoxSelector                                                     *)
(***************************************************************************)
\* the value Math.round gives for 0 * Infinity; every other coordinate is >= 0
NaN == -1

\* Math.min / Math.max / <= of JavaScript numbers
JsMin(a, b) == IF a = NaN \/ b = NaN THEN NaN ELSE IF a <= b THEN a ELSE b
JsMax(a, b) == IF a = NaN \/ b = NaN THEN NaN ELSE IF a >= b THEN a ELSE b
JsLeq(a, b) == a # NaN /\ b # NaN /\ a <= b

\* Math.round((num / den) * (original / display)) for num >= 0, den > 0: the display
\* coordinate num / den scaled to original space and rounded half up.  With display = 0
\* the scale is Infinity (or 0 / 0) and the coordinate, which is 0 inside a zero-sized
\* image, gives NaN.
ScaleRound(num, den, original, display) ==
    IF display = 0 THEN NaN
    ELSE (2 * num * original + den * display) \div (2 * den * display)

\* images an imageUrl can name, by natural size
Images == {1, 2}
NaturalSize(u) == IF u = 1 THEN [width |-> 3, height |-> 2] ELSE [width |-> 2, height |-> 1]

\* live geometry of the selector's image element: not laid out, 2 x 1, 1 x 1
SelZeroGeom == Geom(0, 0, 1, 0)
SelGeoms == {SelZeroGeom, Geom(2, 1, 0, 0), Geom(1, 1, 1, 0)}

\* pointer positions relative to the container, which holds the image element
SelXs == 0..Max({g.offsetX + g.width : g \in SelGeoms})
SelYs == 0..Max({g.offsetY + g.height : g \in SelGeoms})

\* getRelativeCoordinates (x, y: e.clientX - rect.left, e.clientY - rect.top)
getRelativeCoordinates(x, y) ==
    IF originalImageSize.width = 0 THEN <<>>
    ELSE LET imgX == selImgRect.offsetX
             imgY == selImgRect.offsetY
             displayWidth == selImgRect.width
             displayHeight == selImgRect.height
         IN  IF x < imgX \/ x > imgX + displayWidth \/ y < imgY \/ y > imgY + displayHeight
             THEN <<>>
             ELSE LET displayX == x - imgX
                      displayY == y - imgY
                  IN  <<[x |-> displayX, y |-> displayY,
                         originalX |-> ScaleRound(displayX, 1, originalImageSize.width,
                                                  displayWidth),
                         originalY |-> ScaleRound(displayY, 1, originalImageSize.height,
                                                  displayHeight)]>>

\* the box from the start point to the pointer, corners not ordered
dragBoxUnordered(start, pos) ==
    Box(start.originalX, start.originalY, pos.originalX, pos.originalY)

\* lines 276-281: the box spanned by the start point and the pointer
dragBox(start, pos) ==
    Box(JsMin(start.originalX, pos.originalX), JsMin(start.originalY, pos.originalY),
        JsMax(start.originalX, pos.originalX), JsMax(start.originalY, pos.originalY))

\* the effect on [bbox, onBboxChange] comparing boxes by their coordinates: a box equal
\* to the one held does not run it
emitEffectByValue(b) == IF b = bbox THEN <<>> ELSE <<b>>

\* the effect on [bbox, onBboxChange] (lines 302-306) after a handler that set bbox to b:
\* it runs when the value of bbox is another one (a new object, or null after a box)
emitEffect(b) == IF b = <<>> /\ bbox = <<>> THEN <<>> ELSE <<b>>

selectorIdle == UNCHANGED <<overlayVars, mapperVars, rasterVars, uploadVars, resizeVars>>

\* lines 258-260: handleMouseDown goes on to start a drag
mouseDownStartsDrag(x, y) == enabled /\ getRelativeCoordinates(x, y) # <<>>

selHandleMouseDown(x, y) ==
    LET pos == getRelativeCoordinates(x, y)
    IN  /\ IF ~mouseDownStartsDrag(x, y)
           THEN /\ UNCHANGED <<isDrawing, startPos, currentPos, bbox>>
                /\ onBboxChangeCalls' = <<>>
           ELSE /\ isDrawing' = TRUE
                /\ startPos' = pos
                /\ currentPos' = pos
                /\ bbox' = <<>>
                /\ onBboxChangeCalls' = emitEffect(<<>>)
        /\ UNCHANGED <<selImageUrl, enabled, selImgRect, originalImageSize, probes>>
        /\ selectorIdle

\* lines 269-271: handleMouseMove goes on to set the live box
mouseMoveDraws(x, y) ==
    isDrawing /\ enabled /\ getRelativeCoordinates(x, y) # <<>> /\ startPos # <<>>

selHandleMouseMove(x, y) ==
    LET pos == getRelativeCoordinates(x, y)
    IN  /\ IF ~mouseMoveDraws(x, y)
           THEN /\ UNCHANGED <<currentPos, bbox>>
                /\ onBboxChangeCalls' = <<>>
           ELSE /\ currentPos' = pos
                /\ bbox' = <<dragBox(startPos[1], pos[1])>>
                /\ onBboxChangeCalls' = emitEffect(<<dragBox(startPos[1], pos[1])>>)
        /\ UNCHANGED <<selImageUrl, enabled, selImgRect, originalImageSize, probes,
                       isDrawing, startPos>>
        /\ selectorIdle

\* handleMouseUp dropping the box when the drag ends
selHandleMouseUpDropsBox ==
    /\ IF ~isDrawing
       THEN /\ UNCHANGED <<isDrawing, bbox>>
            /\ onBboxChangeCalls' = <<>>
       ELSE /\ isDrawing' = FALSE
            /\ bbox' = <<>>
            /\ onBboxChangeCalls' = emitEffect(<<>>)
    /\ UNCHANGED <<selImageUrl, enabled, selImgRect, originalImageSize, probes,
                   startPos, currentPos>>
    /\ selectorIdle

\* onMouseUp and onMouseLeave of the container
selHandleMouseUp ==
    /\ IF ~isDrawing
       THEN /\ UNCHANGED isDrawing
            /\ onBboxChangeCalls' = <<>>
       ELSE /\ isDrawing' = FALSE
            /\ onBboxChangeCalls' = IF bbox # <<>> THEN <<bbox>> ELSE <<>>
    /\ UNCHANGED <<selImageUrl, enabled, selImgRect, originalImageSize, probes,
                   bbox, startPos, currentPos>>
    /\ selectorIdle

\* handleClear resetting the box only: the drag state is left as it was
handleClearBoxOnly ==
    /\ enabled
    /\ bbox # <<>>
    /\ bbox' = <<>>
    /\ onBboxChangeCalls' = <<<<>>>> \o emitEffect(<<>>)
    /\ UNCHANGED <<selImageUrl, enabled, selImgRect, originalImageSize, probes,
                   isDrawing, startPos, currentPos>>
    /\ selectorIdle

\* the clear button, rendered when enabled && bbox
handleClear ==
    /\ enabled
    /\ bbox # <<>>
    /\ bbox' = <<>>
    /\ startPos' = <<>>
    /\ currentPos' = <<>>
    /\ isDrawing' = FALSE
    /\ onBboxChangeCalls' = <<<<>>>> \o emitEffect(<<>>)
    /\ UNCHANGED <<selImageUrl, enabled, selImgRect, originalImageSize, probes>>
    /\ selectorIdle

\* the parent passes another imageUrl: the effect on [imageUrl] (lines 215-221) starts
\* a probe of the new image
SetSelImageUrl(u) ==
    /\ u # selImageUrl
    /\ selImageUrl' = u
    /\ probes' = probes \cup {u}
    /\ onBboxChangeCalls' = <<>>
    /\ UNCHANGED <<enabled, selImgRect, originalImageSize, isDrawing, bbox, startPos,
                   currentPos>>
    /\ selectorIdle

\* img.onload of a probe (line 218)
ProbeLoaded(u) ==
    /\ u \in probes
    /\ probes' = probes \ {u}
    /\ originalImageSize' = NaturalSize(u)
    /\ onBboxChangeCalls' = <<>>
    /\ UNCHANGED <<selImageUrl, enabled, selImgRect, isDrawing, bbox, startPos, currentPos>>
    /\ selectorIdle

\* the layout of the selector's image element changes
SelReflow(g) ==
    /\ g # selImgRect
    /\ selImgRect' = g
    /\ onBboxChangeCalls' = <<>>
    /\ UNCHANGED <<selImageUrl, enabled, originalImageSize, probes, isDrawing, bbox,
                   startPos, currentPos>>
    /\ selectorIdle

\* the parent toggles the prop enabled
SetEnabled ==
    /\ enabled' = ~enabled
    /\ onBboxChangeCalls' = <<>>
    /\ UNCHANGED <<selImageUrl, selImgRect, originalImageSize, probes, isDrawing, bbox,
                   startPos, currentPos>>
    /\ selectorIdle

\* after mount: the size probe of the first image is loading, the emit effect has run once
SelectorInit ==
    /\ selImageUrl = 1
    /\ enabled = TRUE
    /\ selImgRect = SelZeroGeom
    /\ originalImageSize = [width |-> 0, height |-> 0]
    /\ probes = {1}
    /\ isDrawing = FALSE
    /\ bbox = <<>>
    /\ startPos = <<>>
    /\ currentPos = <<>>
    /\ onBboxChangeCalls = <<<<>>>>

(***************************************************************************)
(* Coordinate round trip                                                   *)
(***************************************************************************)
\* largest display size and largest original size of a geometry snapshot
MaxMapDisplay == 5
MaxMapOriginal == 4

MapGeoms ==
    {[displayWidth |-> dw, displayHeight |-> dh, offsetX |-> o[1], offsetY |-> o[2],
      imageWidth |-> iw, imageHeight |-> ih] :
        dw \in 0..MaxMapDisplay, dh \in {0, 2, MaxMapDisplay}, o \in {<<0, 0>>, <<1, 2>>},
        iw \in 0..MaxMapOriginal, ih \in {0, 3, MaxMapOriginal}}

\* toDisplay: ObjectDetectionView.getDisplayBbox (lines 167-190) on the point p under
\* snapshot g; <<>> when it returns null
toDisplay(g, p) ==
    IF g.displayWidth = 0 \/ g.displayHeight = 0 \/ g.imageWidth = 0 \/ g.imageHeight = 0
    THEN <<>>
    ELSE <<[x |-> g.offsetX * g.imageWidth + p[1] * g.displayWidth,
            y |-> g.offsetY * g.imageHeight + p[2] * g.displayHeight,
            denX |-> g.imageWidth, denY |-> g.imageHeight]>>

\* toOriginal scaling the container-relative coordinate, the image offset not removed
toOriginalNoOffset(g, d) ==
    IF g.imageWidth = 0 THEN <<>>
    ELSE <<<<ScaleRound(d.x, d.denX, g.imageWidth, g.displayWidth),
             ScaleRound(d.y, d.denY, g.imageHeight, g.displayHeight)>>>>

\* toOriginal: BoundingBoxSelector.getRelativeCoordinates (lines 223-255) on the
\* container-relative display point d (coordinates x / denX, y / denY) under snapshot g
toOriginal(g, d) ==
    IF g.imageWidth = 0 THEN <<>>
    ELSE LET imgX == g.offsetX * d.denX
             imgY == g.offsetY * d.denY
         IN  IF \/ d.x < imgX
                \/ d.x > imgX + g.displayWidth * d.denX
                \/ d.y < imgY
                \/ d.y > imgY + g.displayHeight * d.denY
             THEN <<>>
             ELSE <<<<ScaleRound(d.x - imgX, d.denX, g.imageWidth, g.displayWidth),
                      ScaleRound(d.y - imgY, d.denY, g.imageHeight, g.displayHeight)>>>>

mapperIdle == UNCHANGED <<overlayVars, selectorVars, rasterVars, uploadVars, resizeVars>>

ApplyToDisplay ==
    /\ mapPc = "start"
    /\ mapDisplay' = toDisplay(mapGeom, mapPoint)
    /\ mapPc' = IF toDisplay(mapGeom, mapPoint) = <<>> THEN "undefined" ELSE "display"
    /\ UNCHANGED <<mapGeom, mapPoint, mapBack>>
    /\ mapperIdle

ApplyToOriginal ==
    /\ mapPc = "display"
    /\ mapBack' = toOriginal(mapGeom, mapDisplay[1])
    /\ mapPc' = "done"
    /\ UNCHANGED <<mapGeom, mapPoint, mapDisplay>>
    /\ mapperIdle

MapperInit ==
    /\ mapGeom \in MapGeoms
    /\ mapPoint \in (0..mapGeom.imageWidth) \X (0..mapGeom.imageHeight)
    /\ mapDisplay = <<>>
    /\ mapBack = <<>>
    /\ mapPc = "start"

\* the mapper at rest, for the specifications of the two components
MapperRest ==
    /\ mapGeom = [displayWidth |-> 0, displayHeight |-> 0, offsetX |-> 0, offsetY |-> 0,
                  imageWidth |-> 0, imageHeight |-> 0]
    /\ mapPoint = <<0, 0>>
    /\ mapDisplay = <<>>
    /\ mapBack = <<>>
    /\ mapPc = "start"

(***************************************************************************)
(* createOutline at the level of pixels (ObjectDetectionView.tsx 40-103)   *)
(***************************************************************************)
\* largest width and height of a decoded mask
MaxMaskSide == 4

\* alpha above which a pixel belongs to the mask
AlphaThreshold == 128

\* a decoded mask: an opaque rectangle from (x1, y1) to (x2, y2), ends included, of
\* alpha `inside` on a w x h canvas of alpha `outside`
RectMask(w, h, x1, y1, x2, y2, inside, outside) ==
    [width |-> w, height |-> h,
     alpha |-> [p \in (0..(w - 1)) \X (0..(h - 1)) |->
                   IF x1 <= p[1] /\ p[1] <= x2 /\ y1 <= p[2] /\ p[2] <= y2
                   THEN inside ELSE outside]]

Masks ==
    {RectMask(w, h, x1, y1, x2, y2, inside, outside) :
        w \in 1..MaxMaskSide, h \in 1..MaxMaskSide,
        x1 \in 0..(MaxMaskSide - 1), x2 \in 0..(MaxMaskSide - 1),
        y1 \in 0..(MaxMaskSide - 1), y2 \in 0..(MaxMaskSide - 1),
        inside \in {AlphaThreshold + 1, 255}, outside \in {0, AlphaThreshold}}

\* largest width and height of a decoded mask whose pixels are set one by one
MaxFreeSide == 3

\* a decoded mask of any shape: alpha just above the threshold on the pixels of
\* `inside`, exactly at the threshold on the others
FreeMask(w, h, inside) ==
    [width |-> w, height |-> h,
     alpha |-> [p \in (0..(w - 1)) \X (0..(h - 1)) |->
                   IF p \in inside THEN AlphaThreshold + 1 ELSE AlphaThreshold]]

\* lines 79-81: the four neighbours, in the order of the code
checks(x, y) == <<<<x - 1, y>>, <<x + 1, y>>, <<x, y - 1>>, <<x, y + 1>>>>

\* the neighbour test with the canvas border not counted as an edge
isEdgeInside(r, x, y) ==
    \E n \in 1..4 :
        LET nx == checks(x, y)[n][1]
            ny == checks(x, y)[n][2]
        IN  /\ ~(nx < 0 \/ nx >= r.width \/ ny < 0 \/ ny >= r.height)
            /\ r.alpha[<<nx, ny>>] <= AlphaThreshold

\* lines 77-93: isEdge after the loop over the neighbours
isEdge(r, x, y) ==
    \E n \in 1..4 :
        LET nx == checks(x, y)[n][1]
            ny == checks(x, y)[n][2]
        IN  \/ nx < 0 \/ nx >= r.width \/ ny < 0 \/ ny >= r.height
            \/ r.alpha[<<nx, ny>>] <= AlphaThreshold

\* the loop painting every pixel of the mask, edge or not
outlinePixelsFilled(r) ==
    {p \in (0..(r.width - 1)) \X (0..(r.height - 1)) : r.alpha[p] > AlphaThreshold}

\* lines 70-100: the pixels for which outlineCtx.fillRect(x, y, 1, 1) is called
outlinePixels(r) ==
    {p \in (0..(r.width - 1)) \X (0..(r.height - 1)) :
        r.alpha[p] > AlphaThreshold /\ isEdge(r, p[1], p[2])}

rasterIdle == UNCHANGED <<overlayVars, selectorVars, mapperVars, uploadVars, resizeVars>>

\* img.onload of createOutline with both drawing contexts available
DrawOutline ==
    /\ rasterPc = "decoded"
    /\ outlineRaster' = outlinePixels(maskRaster)
    /\ rasterPc' = "done"
    /\ UNCHANGED maskRaster
    /\ rasterIdle

RasterInit ==
    /\ \/ maskRaster \in Masks
       \/ \E w \in 1..MaxFreeSide, h \in 1..MaxFreeSide :
              \E inside \in SUBSET ((0..(w - 1)) \X (0..(h - 1))) :
                  maskRaster = FreeMask(w, h, inside)
    /\ outlineRaster = {}
    /\ rasterPc = "decoded"

\* no mask being processed, for the specifications of the other parts
RasterRest ==
    /\ maskRaster = RectMask(1, 1, 0, 0, 0, 0, 255, 0)
    /\ outlineRaster = {}
    /\ rasterPc = "decoded"

(***************************************************************************)
(* SearchInterface: upload pipeline (src/unnamed/part_002, lines 10-213)   *)
(* and the image utilities it imports (lines 932-1061)                     *)
(***************************************************************************)
\* uploads in flight at one time: files with a processImageFile invocation suspended
\* at an await, a FileReader or a preview Image() not yet finished
MaxUploads == 1

\* 1024 * 1024
MiB == 1048576
\* maxSizeMB, maxSizeBytes / MiB
MaxSizeMB == 10
maxSizeBytes == MaxSizeMB * MiB
minDimension == 400
\* the maxDimension processImageFile passes to preprocessImage, and its own guard
UploadMaxDimension == 1920

\* a File: name, MIME type, byte size, and what decoding it as an image gives;
\* `encoding` tells the bytes of the user's file from those of a canvas re-encode
File(name, type, size, decodes, width, height) ==
    [name |-> name, type |-> type, size |-> size, decodes |-> decodes,
     width |-> width, height |-> height, encoding |-> "original"]

\* the files the user picks or drops
Files ==
    {File(1, "image/png", 2 * MiB, TRUE, 500, 500),
     File(2, "image/png", 2 * MiB, TRUE, 300, 300),
     File(3, "image/jpeg", 11 * MiB, TRUE, 300, 300),
     File(4, "application/pdf", 11 * MiB, TRUE, 300, 300),
     File(5, "image/png", maxSizeBytes, TRUE, 400, 400),
     File(6, "image/jpeg", maxSizeBytes + 1, TRUE, 1000, 800),
     File(7, "image/png", 2 * MiB, FALSE, 0, 0),
     File(8, "image/jpeg", 2 * MiB, TRUE, 4000, 2000),
     File(9, "image/webp", 2 * MiB, TRUE, 1000, 800),
     File(10, "image/jpeg", 2 * MiB, TRUE, 4000, 800)}

\* what canvas.toBlob of preprocessImage can give: no blob, or a blob of some size
BlobSizes == {1 * MiB, maxSizeBytes, maxSizeBytes + 1}
EncodeOutcomes == {<<>>} \cup {<<n>> : n \in BlobSizes}

startsWithImage(type) ==
    type \in {"image/png", "image/jpeg", "image/webp"}

\* validateImageFile: <<>> (null) or <<error>>.  fileSizeMB = size / 2^20 is exact in
\* a double, so fileSizeMB > maxSizeMB is size > maxSizeMB * 2^20
validateImageFile(file) ==
    IF ~startsWithImage(file.type) THEN <<"InvalidType">>
    ELSE IF file.size > MaxSizeMB * MiB THEN <<"TooLarge">>
    ELSE IF file.size > maxSizeBytes THEN <<"TooLarge">>
    ELSE <<>>

\* validateImageDimensions rejecting an image of exactly the minimum size
validateImageDimensionsStrict(file) ==
    IF ~file.decodes THEN <<"ReadFailed">>
    ELSE IF file.width <= minDimension \/ file.height <= minDimension THEN <<"TooSmall">>
    ELSE <<>>

\* validateImageDimensions: getImageDimensions rejects when the file does not decode
validateImageDimensions(file) ==
    IF ~file.decodes THEN <<"ReadFailed">>
    ELSE IF file.width < minDimension \/ file.height < minDimension THEN <<"TooSmall">>
    ELSE <<>>

\* Math.round(n / d) for n >= 0, d > 0
MathRound(n, d) == (2 * n + d) \div (2 * d)

\* resizeDims with the longer side set and the other side left as it was
resizeDimsNoScale(width, height, maxDimension) ==
    IF width > maxDimension \/ height > maxDimension
    THEN IF width > height
         THEN <<maxDimension, height>>
         ELSE <<width, maxDimension>>
    ELSE <<width, height>>

\* preprocessImage, lines 948-963: canvas.width and canvas.height
resizeDims(width, height, maxDimension) ==
    IF width > maxDimension \/ height > maxDimension
    THEN IF width > height
         THEN <<maxDimension, MathRound(height * maxDimension, width)>>
         ELSE <<MathRound(width * maxDimension, height), maxDimension>>
    ELSE <<width, height>>

\* preprocessImage(file, maxDimension, quality) of a file that decodes, whose toBlob
\* gives a blob of blobSize bytes: the new File of lines 978-981
preprocessImage(file, maxDimension, blobSize) ==
    [name |-> file.name, type |-> "image/jpeg", size |-> blobSize, decodes |-> TRUE,
     width |-> resizeDims(file.width, file.height, maxDimension)[1],
     height |-> resizeDims(file.width, file.height, maxDimension)[2],
     encoding |-> "jpeg"]

\* the guard of the resize left out: every file is re-encoded
needsResizeAlways(file) == TRUE

\* line 79: the guard of the resize
needsResize(file) == file.width > UploadMaxDimension \/ file.height > UploadMaxDimension

\* the check after the resize left out
stillTooLargeNever(processedFile) == FALSE

\* line 94: the check after the resize
stillTooLarge(processedFile) == processedFile.size > maxSizeBytes

Proc(file, pc, processedFile) == [file |-> file, pc |-> pc, processedFile |-> processedFile]

uploadIdle == UNCHANGED <<overlayVars, selectorVars, mapperVars, rasterVars, resizeVars>>

\* line 249: the upload area, with the file input and the drop target, is rendered
uploadAreaShown == preview = <<>>

\* lines 291-301: the error block; it is inside the image-view branch of line 249
errorShown == preview # <<>> /\ error # <<>>

\* the names of the files of the uploads in flight
inFlight ==
    {p.file.name : p \in procs} \cup {f.name : f \in readers} \cup {f.name : f \in previewImgs}

\* handleFileSelect / handleDrop: processImageFile(file) up to its first await
processImageFile(file) ==
    /\ uploadAreaShown
    /\ Cardinality(inFlight) < MaxUploads
    /\ file.name \notin inFlight
    /\ procs' = procs \cup {Proc(file, "import", <<>>)}
    /\ uploadResult' = <<>>
    /\ detectCalls' = <<>>
    /\ UNCHANGED <<image, preview, error, detectionLoading, detectedObjects, siImageSize,
                   readers, previewImgs, searchVars>>
    /\ uploadIdle

\* lines 58-63, after the import: validateImageFile
FileValidated(p) ==
    /\ p \in procs /\ p.pc = "import"
    /\ LET validationError == validateImageFile(p.file)
       IN  IF validationError # <<>>
           THEN /\ error' = validationError
                /\ procs' = procs \ {p}
                /\ uploadResult' = <<[file |-> p.file, outcome |-> validationError[1]]>>
           ELSE /\ procs' = (procs \ {p}) \cup {Proc(p.file, "validateDimensions", <<>>)}
                /\ uploadResult' = <<>>
                /\ UNCHANGED error
    /\ detectCalls' = <<>>
    /\ UNCHANGED <<image, preview, detectionLoading, detectedObjects, siImageSize,
                   readers, previewImgs, searchVars>>
    /\ uploadIdle

\* lines 65-74, after the await of validateImageDimensions
DimensionsValidated(p) ==
    /\ p \in procs /\ p.pc = "validateDimensions"
    /\ LET dimensionError == validateImageDimensions(p.file)
       IN  IF dimensionError # <<>>
           THEN /\ error' = dimensionError
                /\ procs' = procs \ {p}
                /\ uploadResult' = <<[file |-> p.file, outcome |-> dimensionError[1]]>>
           ELSE /\ procs' = (procs \ {p}) \cup {Proc(p.file, "getImageDimensions", <<>>)}
                /\ uploadResult' = <<>>
                /\ UNCHANGED error
    /\ detectCalls' = <<>>
    /\ UNCHANGED <<image, preview, detectionLoading, detectedObjects, siImageSize,
                   readers, previewImgs, searchVars>>
    /\ uploadIdle

\* acceptOrReject with the results of the previous image cleared before the size check
acceptOrRejectClearingFirst(p, processedFile, loading) ==
    IF stillTooLarge(processedFile)
    THEN /\ error' = <<"StillTooLarge">>
         /\ detectionLoading' = loading
         /\ procs' = procs \ {p}
         /\ uploadResult' = <<[file |-> p.file, outcome |-> "StillTooLarge"]>>
         /\ detectCalls' = <<>>
         /\ searchResults' = <<>>
         /\ selectedCategory' = <<>>
         /\ UNCHANGED <<image, detectedObjects, readers>>
    ELSE /\ image' = <<processedFile>>
         /\ error' = <<>>
         /\ searchResults' = <<>>
         /\ selectedCategory' = <<>>
         /\ readers' = readers \cup {processedFile}
         /\ detectionLoading' = TRUE
         /\ detectedObjects' = <<>>
         /\ procs' = (procs \ {p}) \cup {Proc(p.file, "detect", <<processedFile>>)}
         /\ uploadResult' = <<[file |-> p.file, outcome |-> "accepted"]>>
         /\ detectCalls' = <<processedFile>>

\* lines 92-121 and 128-133: the size check, setImage, the FileReader started, and
\* runDetectionAndSegmentation up to its await, for process p with processedFile;
\* loading is detectionLoading as the lines before left it
acceptOrReject(p, processedFile, loading) ==
    IF stillTooLarge(processedFile)
    THEN /\ error' = <<"StillTooLarge">>
         /\ detectionLoading' = loading
         /\ procs' = procs \ {p}
         /\ uploadResult' = <<[file |-> p.file, outcome |-> "StillTooLarge"]>>
         /\ detectCalls' = <<>>
         /\ UNCHANGED <<image, detectedObjects, readers, searchResults, selectedCategory>>
    ELSE /\ image' = <<processedFile>>
         /\ error' = <<>>
         /\ searchResults' = <<>>
         /\ selectedCategory' = <<>>
         /\ readers' = readers \cup {processedFile}
         /\ detectionLoading' = TRUE
         /\ detectedObjects' = <<>>
         /\ procs' = (procs \ {p}) \cup {Proc(p.file, "detect", <<processedFile>>)}
         /\ uploadResult' = <<[file |-> p.file, outcome |-> "accepted"]>>
         /\ detectCalls' = <<processedFile>>

\* lines 74-90, after the await of getImageDimensions; a file within the bounds goes on
\* to lines 92-133 in the same step
DimensionsRead(p) ==
    /\ p \in procs /\ p.pc = "getImageDimensions"
    /\ IF ~p.file.decodes
       THEN /\ error' = <<"ProcessFailed">>
            /\ detectionLoading' = FALSE
            /\ procs' = procs \ {p}
            /\ uploadResult' = <<[file |-> p.file, outcome |-> "ProcessFailed"]>>
            /\ detectCalls' = <<>>
            /\ UNCHANGED <<image, detectedObjects, readers, searchResults, selectedCategory>>
       ELSE IF needsResize(p.file)
       THEN /\ error' = <<>>
            /\ detectionLoading' = TRUE
            /\ procs' = (procs \ {p}) \cup {Proc(p.file, "preprocessImage", <<>>)}
            /\ uploadResult' = <<>>
            /\ detectCalls' = <<>>
            /\ UNCHANGED <<image, detectedObjects, readers, searchResults, selectedCategory>>
       ELSE acceptOrReject(p, p.file, detectionLoading)
    /\ UNCHANGED <<preview, siImageSize, previewImgs, searchLoading, searches>>
    /\ uploadIdle

\* lines 83-90, after the await of preprocessImage(file, 1920, 0.85), then lines 92-133
Preprocessed(p, encoded) ==
    /\ p \in procs /\ p.pc = "preprocessImage"
    /\ IF encoded = <<>>
       THEN /\ error' = <<"ResizeFailed">>
            /\ detectionLoading' = FALSE
            /\ procs' = procs \ {p}
            /\ uploadResult' = <<[file |-> p.file, outcome |-> "ResizeFailed"]>>
            /\ detectCalls' = <<>>
            /\ UNCHANGED <<image, detectedObjects, readers, searchResults, selectedCategory>>
       ELSE acceptOrReject(p, preprocessImage(p.file, UploadMaxDimension, encoded[1]), FALSE)
    /\ UNCHANGED <<preview, siImageSize, previewImgs, searchLoading, searches>>
    /\ uploadIdle

\* lines 102-114: reader.onloadend
PreviewRead(f) ==
    /\ f \in readers
    /\ readers' = readers \ {f}
    /\ preview' = <<f>>
    /\ previewImgs' = previewImgs \cup {f}
    /\ uploadResult' = <<>>
    /\ detectCalls' = <<>>
    /\ UNCHANGED <<image, error, detectionLoading, detectedObjects, siImageSize, procs,
                   searchVars>>
    /\ uploadIdle

\* lines 109-112: img.onload of the preview
PreviewImageLoaded(f) ==
    /\ f \in previewImgs
    /\ previewImgs' = previewImgs \ {f}
    /\ siImageSize' = <<f.width, f.height>>
    /\ uploadResult' = <<>>
    /\ detectCalls' = <<>>
    /\ UNCHANGED <<image, preview, error, detectionLoading, detectedObjects, procs,
                   readers, searchVars>>
    /\ uploadIdle

DetectionOutcomes == {"objects", "empty", "failed"}

\* lines 134-154, after the await of detectAndSegmentObjects(imageFile)
DetectionSettled(p, outcome) ==
    /\ p \in procs /\ p.pc = "detect"
    /\ procs' = procs \ {p}
    /\ detectionLoading' = FALSE
    /\ CASE outcome = "objects" ->
              /\ detectedObjects' = p.processedFile
              /\ siImageSize' = <<p.processedFile[1].width, p.processedFile[1].height>>
              /\ UNCHANGED error
         [] outcome = "empty" ->
              /\ detectedObjects' = <<>>
              /\ siImageSize' = <<p.processedFile[1].width, p.processedFile[1].height>>
              /\ error' = <<"NoObjects">>
         [] outcome = "failed" ->
              /\ error' = <<"DetectFailed">>
              /\ UNCHANGED <<detectedObjects, siImageSize>>
    /\ uploadResult' = <<>>
    /\ detectCalls' = <<>>
    /\ UNCHANGED <<image, preview, readers, previewImgs, searchVars>>
    /\ uploadIdle

\* handleRemoveImage, from the button rendered when preview is set
handleRemoveImage ==
    /\ preview # <<>>
    /\ image' = <<>>
    /\ preview' = <<>>
    /\ detectedObjects' = <<>>
    /\ siImageSize' = <<0, 0>>
    /\ error' = <<>>
    /\ searchResults' = <<>>
    /\ selectedCategory' = <<>>
    /\ uploadResult' = <<>>
    /\ detectCalls' = <<>>
    /\ UNCHANGED <<detectionLoading, procs, readers, previewImgs, searchLoading, searches>>
    /\ uploadIdle

\* search requests in flight at one time
MaxSearches == 2

\* the categories of the regions detection returns for an image
Categories == {"chair", "sofa"}

\* a call searchProducts(image, {category, top_k: 20})
Request(file, category) == [image |-> file, category |-> category]

Without(seq, k) == [j \in 1..(Len(seq) - 1) |-> IF j < k THEN seq[j] ELSE seq[j + 1]]

\* handleObjectClick of SearchInterface, lines 157-170, up to the await of searchProducts,
\* for a click on a region of the given category.  The regions are clickable where
\* ObjectDetectionView is rendered (line 249) and not covered by its loading layer
\* (ObjectDetectionView.tsx, lines 414-423).  Without an image the handler ends in its
\* finally block in the same step.
siHandleObjectClick(category) ==
    /\ preview # <<>> /\ detectedObjects # <<>> /\ ~detectionLoading
    /\ Len(searches) < MaxSearches
    /\ selectedCategory' = <<category>>
    /\ IF image = <<>>
       THEN /\ error' = <<"NoImage">>
            /\ searchLoading' = FALSE
            /\ UNCHANGED searches
       ELSE /\ error' = <<>>
            /\ searchLoading' = TRUE
            /\ searches' = Append(searches, Request(image[1], category))
    /\ uploadResult' = <<>>
    /\ detectCalls' = <<>>
    /\ UNCHANGED <<image, preview, detectionLoading, detectedObjects, siImageSize, procs,
                   readers, previewImgs, searchResults>>
    /\ uploadIdle

\* hits: response.hits is not empty; empty: no hits and a message; emptySilent: no hits
\* and no message; failed: searchProducts rejects
SearchOutcomes == {"hits", "empty", "emptySilent", "failed"}

\* lines 172-192, after the await of searchProducts, for the k-th request in flight
SearchSettled(k, outcome) ==
    /\ k \in 1..Len(searches)
    /\ searches' = Without(searches, k)
    /\ searchLoading' = FALSE
    /\ CASE outcome = "hits" ->
              /\ searchResults' = <<searches[k]>>
              /\ UNCHANGED error
         [] outcome = "empty" ->
              /\ searchResults' = <<>>
              /\ error' = <<"NoResults">>
         [] outcome = "emptySilent" ->
              /\ searchResults' = <<>>
              /\ UNCHANGED error
         [] outcome = "failed" ->
              /\ error' = <<"SearchFailed">>
              /\ searchResults' = <<>>
    /\ uploadResult' = <<>>
    /\ detectCalls' = <<>>
    /\ UNCHANGED <<image, preview, detectionLoading, detectedObjects, siImageSize, procs,
                   readers, previewImgs, selectedCategory>>
    /\ uploadIdle

UploadInit ==
    /\ image = <<>>
    /\ preview = <<>>
    /\ error = <<>>
    /\ detectionLoading = FALSE
    /\ detectedObjects = <<>>
    /\ siImageSize = <<0, 0>>
    /\ procs = {}
    /\ readers = {}
    /\ previewImgs = {}
    /\ uploadResult = <<>>
    /\ detectCalls = <<>>
    /\ searchLoading = FALSE
    /\ searchResults = <<>>
    /\ selectedCategory = <<>>
    /\ searches = <<>>

(***************************************************************************)
(* preprocessImage: the dimension computation on its own (lines 944-966)   *)
(***************************************************************************)
\* small image sides and small values of maxDimension, tried exhaustively
MaxResizeSide == 7
MaxResizeDimension == 4

ResizeSides == (1..MaxResizeSide) \cup {800, 1000, 1920, 1921, 2000, 4000}
ResizeDimensions == (1..MaxResizeDimension) \cup {UploadMaxDimension}

resizeIdle == UNCHANGED <<overlayVars, selectorVars, mapperVars, rasterVars, uploadVars>>

\* img.onload of preprocessImage up to canvas.height = height
ComputeResize ==
    /\ resizePc = "loaded"
    /\ resizeOut' = resizeDims(resizeIn.width, resizeIn.height, resizeIn.maxDimension)
    /\ resizePc' = "done"
    /\ UNCHANGED resizeIn
    /\ resizeIdle

ResizeInit ==
    /\ resizeIn \in [width : ResizeSides, height : ResizeSides, maxDimension : ResizeDimensions]
    /\ resizeOut = <<0, 0>>
    /\ resizePc = "loaded"

\* no image being resized, for the specifications of the other parts
ResizeRest ==
    /\ resizeIn = [width |-> 1, height |-> 1, maxDimension |-> UploadMaxDimension]
    /\ resizeOut = <<0, 0>>
    /\ resizePc = "loaded"

(***************************************************************************)
(* Specifications                                                          *)
(***************************************************************************)
Init == OverlayInit /\ SelectorInit /\ MapperRest /\ RasterRest /\ UploadInit /\ ResizeRest

Next ==
    \/ \E l \in RegionLists : SetObjects(l)
    \/ \E k \in 1..Len(effectRuns) : \E t \in effectRuns[k].awaiting, decoded \in BOOLEAN :
           OutlineResolved(k, t, decoded)
    \/ \E mouseX \in MouseXs, mouseY \in MouseYs : handleMouseMove(mouseX, mouseY)
    \/ handleMouseLeave
    \/ \E i \in 1..Len(objects) : onMouseEnter(i)
    \/ \E i \in 1..Len(objects) : handleObjectClick(i)
    \/ \E g \in Geoms : Reflow(g)
    \/ GeometryEvent
    \/ \E s \in ImageSizes : SetImageSize(s)

Spec == Init /\ [][Next]_vars

\* a createOutline promise settles and the callback awaiting it continues
OutlineSettles ==
    \E k \in 1..Len(effectRuns) : \E t \in effectRuns[k].awaiting, decoded \in BOOLEAN :
        OutlineResolved(k, t, decoded)

\* the overlay with every started outline computation completing: the mask image loads
\* or fails to load (img.onload / img.onerror, lines 41 and 105), and the promise
\* resolves in either case
SpecFair == Init /\ [][Next]_vars /\ WF_vars(OutlineSettles)

SelectorNext ==
    \/ \E x \in SelXs, y \in SelYs : selHandleMouseDown(x, y)
    \/ \E x \in SelXs, y \in SelYs : selHandleMouseMove(x, y)
    \/ selHandleMouseUp
    \/ handleClear
    \/ \E u \in Images : SetSelImageUrl(u)
    \/ \E u \in Images : ProbeLoaded(u)
    \/ \E g \in SelGeoms : SelReflow(g)
    \/ SetEnabled

SpecSelector == Init /\ [][SelectorNext]_vars

MapperNext == ApplyToDisplay \/ ApplyToOriginal

MapperSpecInit ==
    OverlayInit /\ SelectorInit /\ MapperInit /\ RasterRest /\ UploadInit /\ ResizeRest

SpecMapper == MapperSpecInit /\ [][MapperNext]_vars

OutlineNext == DrawOutline

OutlineSpecInit ==
    OverlayInit /\ SelectorInit /\ MapperRest /\ RasterInit /\ UploadInit /\ ResizeRest

SpecOutline == OutlineSpecInit /\ [][OutlineNext]_vars

UploadNext ==
    \/ \E file \in Files : processImageFile(file)
    \/ \E p \in procs : FileValidated(p)
    \/ \E p \in procs : DimensionsValidated(p)
    \/ \E p \in procs : DimensionsRead(p)
    \/ \E p \in procs : \E encoded \in EncodeOutcomes : Preprocessed(p, encoded)
    \/ \E f \in readers : PreviewRead(f)
    \/ \E f \in previewImgs : PreviewImageLoaded(f)
    \/ \E p \in procs : \E outcome \in DetectionOutcomes : DetectionSettled(p, outcome)
    \/ handleRemoveImage

SpecUpload == Init /\ [][UploadNext]_vars

\* the files picked in a session with searches: one rejected by the dimension check,
\* one resized and then accepted or rejected by its size
SearchFiles == {f \in Files : f.name \in {2, 8}}

SearchNext ==
    \/ \E file \in SearchFiles : processImageFile(file)
    \/ \E p \in procs : FileValidated(p)
    \/ \E p \in procs : DimensionsValidated(p)
    \/ \E p \in procs : DimensionsRead(p)
    \/ \E p \in procs : \E encoded \in EncodeOutcomes : Preprocessed(p, encoded)
    \/ \E f \in readers : PreviewRead(f)
    \/ \E f \in previewImgs : PreviewImageLoaded(f)
    \/ \E p \in procs : \E outcome \in DetectionOutcomes : DetectionSettled(p, outcome)
    \/ handleRemoveImage
    \/ \E category \in Categories : siHandleObjectClick(category)
    \/ \E k \in 1..Len(searches) : \E outcome \in SearchOutcomes : SearchSettled(k, outcome)

\* SearchInterface with its searches
SpecSearch == Init /\ [][SearchNext]_vars

ResizeNext == ComputeResize

ResizeSpecInit ==
    OverlayInit /\ SelectorInit /\ MapperRest /\ RasterRest /\ UploadInit /\ ResizeInit

SpecResize == ResizeSpecInit /\ [][ResizeNext]_vars

(***************************************************************************)
(* Properties                                                              *)
(***************************************************************************)
IsSetObjects == \E l \in RegionLists : SetObjects(l)

\* C1: replacing the region list sets both hoveredObjectId and clickedObjectId to
\* null, whatever they were before
C1_ReplaceResetsHoverAndSelection ==
    [][IsSetObjects => (hoveredObjectId' = Null /\ clickedObjectId' = Null)]_vars

\* C2: the result of an outline computation of a run of the mask effect that is no
\* longer the newest (its region list has been replaced) leaves the outline cache as
\* it is
C2_LateOutlineDiscarded ==
    [][\A k \in 1..Len(effectRuns) :
          \A t \in effectRuns[k].awaiting, decoded \in BOOLEAN :
              (k < Len(effectRuns) /\ OutlineResolved(k, t, decoded))
                  => maskOutlines' = maskOutlines]_vars

\* C3: the outline layer of a selected region shows that region's own mask or the
\* outline computed from it, never an image made from another mask
C3_HighlightFromOwnMask ==
    \A i \in 1..Len(objects) :
        outlineLayerShown(i) => outlineLayerImage(i).data = objects[i].mask

\* C4: a click on a region that is not the selected one selects it in that step and
\* calls onObjectClick exactly once, with that region
C4_ClickSelectsAndEmitsOnce ==
    [][\A i \in 1..Len(objects) :
          (handleObjectClick(i) /\ clickedObjectId # objects[i].object_id)
              => /\ clickedObjectId' = objects[i].object_id
                 /\ onObjectClickCalls' = <<objects[i].object_id>>]_vars

\* a selecting click has been handled, made while another region was selected or none
C4_Witness ==
    /\ lastClick # <<>>
    /\ clickedObjectId = lastClick[1]
    /\ onObjectClickCalls = lastClick

\* C5: a click on the selected region clears the selection and calls nothing
C5_ClickOnSelectedDeselects ==
    [][\A i \in 1..Len(objects) :
          (handleObjectClick(i) /\ clickedObjectId = objects[i].object_id)
              => /\ clickedObjectId' = Null
                 /\ onObjectClickCalls' = <<>>]_vars

\* a deselecting click has been handled
C5_Witness ==
    /\ lastClick # <<>>
    /\ clickedObjectId = Null
    /\ onObjectClickCalls = <<>>

\* the regions whose display rect contains the pointer at (mouseX, mouseY) of the image
\* element, edges included
rectContains(i, mouseX, mouseY) ==
    LET d == getDisplayBbox(objects[i].bbox)
    IN  /\ d # <<>>
        /\ d[1].x1 <= (imageInfo.offsetX + mouseX) * d[1].denX
        /\ (imageInfo.offsetX + mouseX) * d[1].denX <= d[1].x2
        /\ d[1].y1 <= (imageInfo.offsetY + mouseY) * d[1].denY
        /\ (imageInfo.offsetY + mouseY) * d[1].denY <= d[1].y2
Containing(mouseX, mouseY) == {i \in 1..Len(objects) : rectContains(i, mouseX, mouseY)}
insideImage(mouseX, mouseY) ==
    mouseX >= 0 /\ mouseY >= 0 /\ mouseX <= imgRect.width /\ mouseY <= imgRect.height

\* C6: for every pointer position inside the image that at least one display rect
\* contains, the hit test gives the region of highest list index among those whose
\* rect contains the pointer
C6_HitTestTopmost ==
    \A mouseX \in MouseXs, mouseY \in MouseYs :
        (insideImage(mouseX, mouseY) /\ Containing(mouseX, mouseY) # {})
            => hitTest(mouseX, mouseY) = objects[Max(Containing(mouseX, mouseY))].object_id

\* the last region of a list of several is hovered, at a point that all rects contain
C6_Witness ==
    /\ Len(objects) > 1
    /\ hoveredObjectId = objects[Len(objects)].object_id
    /\ \E mouseX \in MouseXs, mouseY \in MouseYs :
          /\ insideImage(mouseX, mouseY)
          /\ Containing(mouseX, mouseY) = 1..Len(objects)
          /\ hitTest(mouseX, mouseY) = hoveredObjectId

\* the boxes the selector holds or has just passed to onBboxChange
selBoxes ==
    {b[1] : b \in ({bbox} \cup {onBboxChangeCalls[n] : n \in 1..Len(onBboxChangeCalls)})
                     \ {<<>>}}

isNumber(v) == v # NaN
boxIsNumeric(b) == isNumber(b.x1) /\ isNumber(b.y1) /\ isNumber(b.x2) /\ isNumber(b.y2)

\* C7: every box the selector holds or passes to onBboxChange has x1 <= x2 and y1 <= y2
C7_BoxNormalised ==
    \A b \in selBoxes : JsLeq(b.x1, b.x2) /\ JsLeq(b.y1, b.y2)

\* C8: under one geometry a drag from a to b and a drag from b to a give the same box:
\* for every two pointer positions that map into the image, and for the box held,
\* which equals the box of the drag from the current point back to the start point
C8_DragDirectionSymmetric ==
    /\ bbox # <<>> => bbox[1] = dragBox(currentPos[1], startPos[1])
    /\ \A a \in SelXs \X SelYs, b \in SelXs \X SelYs :
          LET pa == getRelativeCoordinates(a[1], a[2])
              pb == getRelativeCoordinates(b[1], b[2])
          IN  (pa # <<>> /\ pb # <<>>) => dragBox(pa[1], pb[1]) = dragBox(pb[1], pa[1])

\* a box drawn from the bottom right to the top left is held
C8_Witness ==
    /\ bbox # <<>>
    /\ boxIsNumeric(bbox[1])
    /\ startPos[1].originalX > currentPos[1].originalX
    /\ startPos[1].originalY > currentPos[1].originalY
    /\ bbox[1] = Box(currentPos[1].originalX, currentPos[1].originalY,
                     startPos[1].originalX, startPos[1].originalY)

\* C9: once the size of the image named by imageUrl is the measured one, every numeric
\* box held or passed to onBboxChange lies within [0, width] x [0, height] of that image
C9_BoxWithinCurrentImage ==
    (probes = {} /\ originalImageSize = NaturalSize(selImageUrl))
        => \A b \in selBoxes :
              boxIsNumeric(b) =>
                  /\ 0 <= b.x1 /\ b.x1 <= originalImageSize.width
                  /\ 0 <= b.x2 /\ b.x2 <= originalImageSize.width
                  /\ 0 <= b.y1 /\ b.y1 <= originalImageSize.height
                  /\ 0 <= b.y2 /\ b.y2 <= originalImageSize.height

Abs(n) == IF n < 0 THEN -n ELSE n

\* C10: under a snapshot with non-zero display and original sizes, a point of the image
\* mapped to display space and back is within 1 pixel of itself on each axis
C10_RoundTripWithinOnePixel ==
    mapPc = "done" =>
        /\ mapBack # <<>>
        /\ isNumber(mapBack[1][1]) /\ Abs(mapBack[1][1] - mapPoint[1]) <= 1
        /\ isNumber(mapBack[1][2]) /\ Abs(mapBack[1][2] - mapPoint[2]) <= 1

\* an interior point has made the round trip under a scale that is no integer, the
\* image being offset in its container
C10_Witness ==
    /\ mapPc = "done"
    /\ mapBack = <<mapPoint>>
    /\ 0 < mapPoint[1] /\ mapPoint[1] < mapGeom.imageWidth
    /\ 0 < mapPoint[2] /\ mapPoint[2] < mapGeom.imageHeight
    /\ mapGeom.offsetX > 0
    /\ mapGeom.displayWidth % mapGeom.imageWidth # 0
    /\ mapGeom.imageWidth % mapGeom.displayWidth # 0
    /\ (mapPoint[1] * mapGeom.displayWidth) % mapGeom.imageWidth # 0

isFullyOpaque(r) == \A p \in DOMAIN r.alpha : r.alpha[p] = 255

\* C11: for a fully opaque mask of width W > 2 and height H > 2 the number of pixels
\* painted in the outline is 2W + 2H - 4
C11_OpaqueRectOutlineCount ==
    (rasterPc = "done" /\ isFullyOpaque(maskRaster)
        /\ maskRaster.width > 2 /\ maskRaster.height > 2)
        => Cardinality(outlineRaster) = 2 * maskRaster.width + 2 * maskRaster.height - 4

\* the outline of a fully opaque 3 x 4 mask has been drawn: its 10 border pixels, the
\* two interior pixels left unpainted
C11_Witness ==
    /\ rasterPc = "done"
    /\ isFullyOpaque(maskRaster)
    /\ maskRaster.width = 3 /\ maskRaster.height = 4
    /\ Cardinality(outlineRaster) = 10
    /\ <<1, 1>> \notin outlineRaster /\ <<1, 2>> \notin outlineRaster

\* the createOutline promises not yet settled, each with the index of its run
pendingOutlines ==
    UNION {{<<k, t>> : t \in effectRuns[k].awaiting} : k \in 1..Len(effectRuns)}

\* C12: when the mask does not decode (or no drawing context is available) the outline
\* computation still completes, with the raw mask url itself as its result: the step
\* stores that url for the region, changes nothing else the user sees and calls
\* nothing, and a region of the current list with that id then has the raw mask as the
\* image of its outline layer.  (Settling a promise always changes effectRuns, so only
\* such steps are examined.)
C12_OutlineFallsBackToRawMask ==
    [][effectRuns' # effectRuns =>
       \A k \in 1..Len(effectRuns) : \A t \in effectRuns[k].awaiting :
          OutlineResolved(k, t, FALSE)
              => /\ Cardinality(pendingOutlines') = Cardinality(pendingOutlines) - 1
                 /\ maskOutlines'[t.object_id] = t.maskUrl
                 /\ UNCHANGED <<objects, hoveredObjectId, clickedObjectId, maskImages>>
                 /\ onObjectClickCalls' = <<>>
                 /\ k = Len(effectRuns) =>
                        \A i \in 1..Len(objects) :
                            objects[i].object_id = t.object_id
                                => outlineLayerImage(i)' = MaskUrl(objects[i].mask)]_vars

\* a selected region is drawn with its raw mask, stored as the result of its outline
\* computation
C12_Witness ==
    \E i \in 1..Len(objects) :
        /\ outlineLayerShown(i)
        /\ objects[i].object_id \in DOMAIN maskOutlines
        /\ maskOutlines[objects[i].object_id] = MaskUrl(objects[i].mask)
        /\ outlineLayerImage(i) = maskImages[objects[i].object_id]

\* the outcomes of validateImageFile and validateImageDimensions that the state shows:
\* the error an upload has just ended with, or "pass" for an upload that has gone on
\* past the two validations
ValidationErrors == {"InvalidType", "TooLarge", "TooSmall", "ReadFailed"}
validated ==
    {<<uploadResult[n].file,
       IF uploadResult[n].outcome \in ValidationErrors
       THEN uploadResult[n].outcome ELSE "pass">> : n \in 1..Len(uploadResult)}
    \cup {<<p.file, "pass">> :
             p \in {q \in procs : q.pc \in {"getImageDimensions", "preprocessImage", "detect"}}}

\* validate(file) as the specification states it
statedValidate(f) ==
    IF ~startsWithImage(f.type) THEN "InvalidType"
    ELSE IF f.size > 10 * MiB THEN "TooLarge"
    ELSE IF f.decodes /\ (f.width < 400 \/ f.height < 400) THEN "TooSmall"
    ELSE "pass"

\* C13 as stated: validation fails with InvalidType iff the type is no image type,
\* otherwise with TooLarge iff the size exceeds 10 MiB, otherwise with TooSmall iff the
\* decoded width or height is below 400, and otherwise passes
C13_ValidateAsStated ==
    \A v \in validated : v[2] = statedValidate(v[1])

\* C13, amended: as stated for every file whose image decodes; a file of an image type
\* within the size limit that does not decode fails with a read error and does not pass
C13_ValidateOutcome ==
    \A v \in validated :
        v[2] = IF startsWithImage(v[1].type) /\ v[1].size <= 10 * MiB /\ ~v[1].decodes
               THEN "ReadFailed"
               ELSE statedValidate(v[1])

\* a file of exactly 10 MiB and exactly 400 x 400 has passed the validation and is the
\* stored image
C13_Witness ==
    /\ \E v \in validated :
          v[1].size = 10 * MiB /\ v[1].width = 400 /\ v[1].height = 400 /\ v[2] = "pass"
    /\ image # <<>> /\ image[1].size = 10 * MiB

\* r is n / d rounded to the nearest integer, a half rounded up
isNearest(r, n, d) == -d < 2 * r * d - 2 * n /\ 2 * r * d - 2 * n <= d

\* C14: for an image with max(width, height) > maxDimension the output's longer side
\* is maxDimension and its shorter side is round(shorter * maxDimension / longer); a
\* square image gives maxDimension x maxDimension
C14_ResizeDimensions ==
    LET w == resizeIn.width
        h == resizeIn.height
        m == resizeIn.maxDimension
    IN  (resizePc = "done" /\ (w > m \/ h > m))
            => /\ w > h => resizeOut[1] = m /\ isNearest(resizeOut[2], h * m, w)
               /\ h > w => resizeOut[2] = m /\ isNearest(resizeOut[1], w * m, h)
               /\ w = h => resizeOut = <<m, m>>

\* 4000 x 2000 has been resized with maxDimension 1920 to 1920 x 960
C14_Witness ==
    /\ resizePc = "done"
    /\ resizeIn = [width |-> 4000, height |-> 2000, maxDimension |-> 1920]
    /\ resizeOut = <<1920, 960>>

\* the upload that the latest step has accepted: <<>> or <<its file>>
acceptedUpload ==
    IF uploadResult # <<>> /\ uploadResult[1].outcome = "accepted"
    THEN <<uploadResult[1].file>> ELSE <<>>

\* C15: a file whose width and height are both within 1920 goes through the resize
\* stage unchanged: the file stored as the image and passed to detection is the very
\* file the user gave (same bytes, same type, same size), not a re-encode of it
C15_WithinBoundsPassesUnchanged ==
    \A f \in {acceptedUpload[n] : n \in 1..Len(acceptedUpload)} :
        (f.width <= 1920 /\ f.height <= 1920)
            => image = <<f>> /\ detectCalls = <<f>> /\ image[1].encoding = "original"

\* the 1000 x 800 file has been accepted and is the stored image, in its own format
C15_Witness ==
    /\ acceptedUpload # <<>>
    /\ acceptedUpload[1].width = 1000 /\ acceptedUpload[1].height = 800
    /\ image = acceptedUpload
    /\ image[1].type = "image/webp"

\* C16: no file above 10 MiB is the stored image or is passed to detection, and a
\* re-encode that is still above 10 MiB ends the upload with StillTooLarge, the stored
\* image left as it was and no detection started
C16_NeverAboveCeiling ==
    /\ [](/\ \A n \in 1..Len(image) : image[n].size <= 10 * MiB
          /\ \A n \in 1..Len(detectCalls) : detectCalls[n].size <= 10 * MiB
          /\ \A p \in procs : \A n \in 1..Len(p.processedFile) :
                 p.processedFile[n].size <= 10 * MiB)
    /\ [][\A p \in procs : \A encoded \in EncodeOutcomes :
            (Preprocessed(p, encoded) /\ encoded # <<>> /\ encoded[1] > 10 * MiB)
                => /\ uploadResult' = <<[file |-> p.file, outcome |-> "StillTooLarge"]>>
                   /\ error' = <<"StillTooLarge">>
                   /\ image' = image
                   /\ detectCalls' = <<>>]_vars

\* an upload has ended with StillTooLarge, and no image is stored
C16_Witness ==
    /\ uploadResult # <<>>
    /\ uploadResult[1].outcome = "StillTooLarge"
    /\ uploadResult[1].file.width > 1920
    /\ error = <<"StillTooLarge">>
    /\ image = <<>>
    /\ detectCalls = <<>>

\* C17: in the state in which an upload has ended with InvalidType, TooLarge, TooSmall
\* or StillTooLarge the error message is rendered, also when there is no preview
C17_UploadErrorRendered ==
    (uploadResult # <<>>
        /\ uploadResult[1].outcome \in {"InvalidType", "TooLarge", "TooSmall", "StillTooLarge"})
        => errorShown

\* C18: a pointer move or a pointer entering a hit area makes a region the hovered one
\* only if that region is not the selected one
C18_HoverOnlyIfNotSelected ==
    [][/\ \A mouseX \in MouseXs, mouseY \in MouseYs :
            (handleMouseMove(mouseX, mouseY)
                /\ hoveredObjectId' # Null /\ hoveredObjectId' # hoveredObjectId)
                => hoveredObjectId' # clickedObjectId
       /\ \A i \in 1..Len(objects) :
            onMouseEnter(i) => hoveredObjectId' # clickedObjectId]_vars

\* C19: in every state, a pointer move to a position that no region's display rect
\* contains (inside the image outside every rect, or outside the image) leaves
\* hoveredObjectId null, whatever the region list, the empty one included.  (The
\* pointer leaving the container is handleMouseLeave, which sets null in any state.)
C19_NoRegionClearsHover ==
    \A mouseX \in MouseXs, mouseY \in MouseYs :
        (~insideImage(mouseX, mouseY) \/ Containing(mouseX, mouseY) = {})
            => hoveredAfterMouseMove(mouseX, mouseY) = Null

\* C20: onObjectClick is called only by a click on a region that was not the selected
\* one and becomes the selected one, once and with that region: no other step (hover,
\* pointer leave, list replacement, deselecting click, geometry, outline) calls it
C20_EmitOnlyOnSelectingClick ==
    [][onObjectClickCalls' # <<>> =>
          \E i \in 1..Len(objects) :
              /\ handleObjectClick(i)
              /\ clickedObjectId # objects[i].object_id
              /\ clickedObjectId' = objects[i].object_id
              /\ onObjectClickCalls' = <<objects[i].object_id>>]_vars

\* onObjectClick has just been called for the hovered region, which is now selected
C20_Witness ==
    /\ Len(onObjectClickCalls) = 1
    /\ clickedObjectId = onObjectClickCalls[1]
    /\ hoveredObjectId = clickedObjectId

\* C21 as stated: for every region of the list, the hover outline and the category
\* label are shown iff the region is hovered and not selected; the mask overlay and
\* the glow are shown only if it is selected; no region shows the hover outline or the
\* label together with the mask overlay; at most one region shows each
C21_RenderPolicyAsStated ==
    /\ \A i \in 1..Len(objects) :
          /\ hoverOutlineShown(i) <=> (isHovered(i) /\ ~isClicked(i))
          /\ labelShown(i) <=> (isHovered(i) /\ ~isClicked(i))
          /\ (maskOverlayShown(i) \/ glowShown(i)) => isClicked(i)
          /\ ~((hoverOutlineShown(i) \/ labelShown(i)) /\ maskOverlayShown(i))
    /\ Cardinality({i \in 1..Len(objects) : hoverOutlineShown(i)}) <= 1
    /\ Cardinality({i \in 1..Len(objects) : labelShown(i)}) <= 1
    /\ Cardinality({i \in 1..Len(objects) : maskOverlayShown(i)}) <= 1

\* C21, amended: as stated for every region that has a display rect; a region without
\* one (display or original size zero) shows none of the four elements, hovered or not
C21_RenderPolicy ==
    /\ \A i \in 1..Len(objects) :
          /\ hoverOutlineShown(i) <=> (isRendered(i) /\ isHovered(i) /\ ~isClicked(i))
          /\ labelShown(i) <=> (isRendered(i) /\ isHovered(i) /\ ~isClicked(i))
          /\ (maskOverlayShown(i) \/ glowShown(i)) => isClicked(i)
          /\ ~((hoverOutlineShown(i) \/ labelShown(i)) /\ maskOverlayShown(i))
          /\ ~isRendered(i) => ~(hoverOutlineShown(i) \/ labelShown(i)
                                    \/ maskOverlayShown(i) \/ glowShown(i))
    /\ Cardinality({i \in 1..Len(objects) : hoverOutlineShown(i)}) <= 1
    /\ Cardinality({i \in 1..Len(objects) : labelShown(i)}) <= 1
    /\ Cardinality({i \in 1..Len(objects) : maskOverlayShown(i)}) <= 1

\* one region is selected and shows its mask overlay and glow while another is hovered
\* and shows its outline and label
C21_Witness ==
    \E i, j \in 1..Len(objects) :
        /\ i # j
        /\ maskOverlayShown(i) /\ glowShown(i) /\ ~labelShown(i) /\ ~hoverOutlineShown(i)
        /\ hoverOutlineShown(j) /\ labelShown(j) /\ ~maskOverlayShown(j)

\* the four axis-aligned neighbours of pixel p, in or out of the raster
neighbours(p) == {<<p[1] - 1, p[2]>>, <<p[1] + 1, p[2]>>, <<p[1], p[2] - 1>>, <<p[1], p[2] + 1>>}

\* C22: a pixel of the outline raster is painted iff its source alpha is > 128 and at
\* least one of its four neighbours is out of bounds or has alpha <= 128; so painted
\* pixels all belong to the mask and a pixel whose four neighbours are mask pixels is
\* never painted
C22_OutlinePixelIff ==
    rasterPc = "done" =>
        /\ \A p \in DOMAIN maskRaster.alpha :
              p \in outlineRaster <=>
                  /\ maskRaster.alpha[p] > 128
                  /\ \E q \in neighbours(p) :
                        q \notin DOMAIN maskRaster.alpha \/ maskRaster.alpha[q] <= 128
        /\ outlineRaster \subseteq {p \in DOMAIN maskRaster.alpha : maskRaster.alpha[p] > 128}
        /\ \A p \in DOMAIN maskRaster.alpha :
              (\A q \in neighbours(p) :
                  q \in DOMAIN maskRaster.alpha /\ maskRaster.alpha[q] > 128)
                  => p \notin outlineRaster

\* an outline has been drawn in which a mask pixel away from the border is painted
\* because a neighbour has alpha exactly 128, an interior mask pixel is left
\* transparent, and so is a pixel of alpha 128
C22_Witness ==
    /\ rasterPc = "done"
    /\ \E p \in outlineRaster :
          /\ neighbours(p) \subseteq DOMAIN maskRaster.alpha
          /\ maskRaster.alpha[p] = 129
          /\ \E q \in neighbours(p) : maskRaster.alpha[q] = 128
    /\ \E p \in DOMAIN maskRaster.alpha \ outlineRaster :
          /\ maskRaster.alpha[p] > 128
          /\ neighbours(p) \subseteq DOMAIN maskRaster.alpha
    /\ \E p \in DOMAIN maskRaster.alpha \ outlineRaster : maskRaster.alpha[p] = 128

\* the outline cache holds, for every masked region of the current list, the result of
\* the outline computation of that region's own mask
cacheCurrent ==
    \A id \in MaskedIds(objects) :
        /\ id \in DOMAIN maskOutlines
        /\ maskOutlines[id].data = MaskOf(objects, id)

\* C23: if from some point on the region list is not replaced any more, and every
\* started outline computation completes, then from some point on the outline cache
\* holds the outline of every masked region of the current list
C23_OutlineCacheEventuallyCurrent ==
    <>[][~IsSetObjects]_vars => <>[]cacheCurrent

\* the outcomes of the outline computation of region i's own mask
ownOutlines(i) == {createOutline(MaskUrl(objects[i].mask), decoded) : decoded \in BOOLEAN}

\* C24: in every state a selected region that has a mask (and a display rect) is
\* highlighted: its mask overlay and outline layer are drawn, the outline layer from
\* its raw mask as long as no outline is cached for it and from the outline of its mask
\* once one is cached; and a click on a region is enabled whatever outline
\* computations are pending
C24_SelectedHighlighted ==
    \A i \in 1..Len(objects) :
        /\ (isClicked(i) /\ objects[i].mask # NoMask /\ isRendered(i))
              => /\ maskOverlayShown(i)
                 /\ outlineLayerShown(i)
                 /\ IF objects[i].object_id \in DOMAIN maskOutlines
                    THEN outlineLayerImage(i) \in ownOutlines(i)
                    ELSE outlineLayerImage(i) = MaskUrl(objects[i].mask)
        /\ isRendered(i) => ENABLED handleObjectClick(i)

\* the pointer at (x, y) of the selector's container is inside the rendered image
selInsideImage(x, y) ==
    /\ selImgRect.offsetX <= x /\ x <= selImgRect.offsetX + selImgRect.width
    /\ selImgRect.offsetY <= y /\ y <= selImgRect.offsetY + selImgRect.height

\* the hover and click transitions of the overlay take effect whatever outline
\* computations are pending: a pointer move over a display rect hovers a region, and a
\* click on a rendered region is enabled
overlayHandlersTakeEffect ==
    /\ \A mouseX \in MouseXs, mouseY \in MouseYs :
          (insideImage(mouseX, mouseY) /\ Containing(mouseX, mouseY) # {})
              => hoveredAfterMouseMove(mouseX, mouseY) # Null
    /\ \A i \in 1..Len(objects) : isRendered(i) => ENABLED handleObjectClick(i)

\* a pointer-down inside the laid-out image on the enabled selector starts a drag
\* whatever size probes are pending
selectorHandlersTakeEffect ==
    \A x \in SelXs, y \in SelYs :
        (enabled /\ selImgRect.width > 0 /\ selImgRect.height > 0 /\ selInsideImage(x, y))
            => getRelativeCoordinates(x, y) # <<>>

\* C25: in every state, whatever asynchronous operations are pending, the hover and
\* click handlers of the overlay and the box-drawing handlers of the selector take
\* effect: none of them is disabled by an unfinished operation
C25_HandlersNeverBlocked ==
    overlayHandlersTakeEffect /\ selectorHandlersTakeEffect

\* the start point a pointer-down at (x, y) records is the pointer relative to the
\* image in display space and, in original space, that point scaled by original size
\* over display size and rounded
startPointRecorded(x, y) ==
    LET pos == getRelativeCoordinates(x, y)[1]
    IN  /\ pos.x = x - selImgRect.offsetX
        /\ pos.y = y - selImgRect.offsetY
        /\ isNumber(pos.originalX) /\ isNumber(pos.originalY)
        /\ selImgRect.width > 0 /\ selImgRect.height > 0
        /\ isNearest(pos.originalX, pos.x * originalImageSize.width, selImgRect.width)
        /\ isNearest(pos.originalY, pos.y * originalImageSize.height, selImgRect.height)

\* C26: in idle, a pointer-down starts a drag iff the selector is enabled and the
\* pointer is inside the rendered image bounds, and the start point it records is that
\* point in display and in original coordinates; any other pointer-down leaves the
\* selector idle with its box (the handler then sets nothing)
C26_PointerDownStartsDrag ==
    ~isDrawing =>
        \A x \in SelXs, y \in SelYs :
            /\ mouseDownStartsDrag(x, y) <=> (enabled /\ selInsideImage(x, y))
            /\ mouseDownStartsDrag(x, y) => startPointRecorded(x, y)

\* C27: a pointer-up, or the pointer leaving the container, while drawing makes the
\* selector idle and leaves the box as the last pointer-move made it; and while the
\* selector is idle no step changes the box except clear() and a pointer-down inside
\* the image that starts a new drag
C27_PointerUpRetainsBox ==
    [][/\ (selHandleMouseUp /\ isDrawing) => (~isDrawing' /\ bbox' = bbox)
       /\ (~isDrawing /\ bbox' # bbox)
             => \/ handleClear
                \/ \E x \in SelXs, y \in SelYs :
                      /\ selInsideImage(x, y)
                      /\ mouseDownStartsDrag(x, y)
                      /\ selHandleMouseDown(x, y)]_vars

\* a drag has just ended with a pointer-up: the selector is idle and holds the box of
\* the drag, which the pointer-up has passed to onBboxChange
C27_Witness ==
    /\ ~isDrawing
    /\ bbox # <<>>
    /\ boxIsNumeric(bbox[1])
    /\ bbox[1] = dragBox(startPos[1], currentPos[1])
    /\ bbox[1].x1 < bbox[1].x2
    /\ onBboxChangeCalls = <<bbox>>

\* C28: clear(), whether the selector is idle or drawing, leaves it idle with no box
\* and no start point, and passes none (null) to onBboxChange
C28_ClearResets ==
    [][handleClear
          => /\ ~isDrawing'
             /\ bbox' = <<>>
             /\ startPos' = <<>>
             /\ currentPos' = <<>>
             /\ Len(onBboxChangeCalls') >= 1
             /\ \A n \in 1..Len(onBboxChangeCalls') : onBboxChangeCalls'[n] = <<>>]_vars

\* clear() has just run: the handler's own call and the effect on [bbox] have both
\* passed null, and nothing of the drag is left
C28_Witness ==
    /\ onBboxChangeCalls = <<<<>>, <<>>>>
    /\ ~isDrawing
    /\ bbox = <<>>
    /\ startPos = <<>>
    /\ currentPos = <<>>

\* box b spans the points p and q of original space: on each axis its two coordinates
\* are those of p and q, the smaller one first
spans(b, p, q) ==
    boxIsNumeric(b) =>
        /\ b.x1 <= b.x2 /\ {b.x1, b.x2} = {p.originalX, q.originalX}
        /\ b.y1 <= b.y2 /\ {b.y1, b.y2} = {p.originalY, q.originalY}

\* what a step does to the box agrees with what it passes to onBboxChange: the box is
\* the last one passed, or nothing is passed and the box is as before
boxIsLastEmitted ==
    IF onBboxChangeCalls' = <<>> THEN bbox' = bbox
    ELSE onBboxChangeCalls'[Len(onBboxChangeCalls')] = bbox'

\* every pointer-move inside the image of a selector in state drawing sets and passes
\* to onBboxChange the box spanning the start point and the pointer
everyMoveEmits ==
    \A x \in SelXs, y \in SelYs :
        (isDrawing /\ selInsideImage(x, y) /\ selHandleMouseMove(x, y))
            => /\ bbox' # <<>>
               /\ onBboxChangeCalls' = <<bbox'>>
               /\ spans(bbox'[1], startPos[1], getRelativeCoordinates(x, y)[1])

\* C29 as stated: while drawing, every pointer-move inside the image draws (the handler
\* goes on to set the box, in every state), sets the box spanning the start point and
\* the pointer in original coordinates and passes it to onBboxChange; during a drag and
\* at the pointer-up that ends it the box held is the last box passed
C29_LiveBoxAsStated ==
    /\ [](isDrawing => \A x \in SelXs, y \in SelYs :
                          selInsideImage(x, y) => mouseMoveDraws(x, y))
    /\ [][everyMoveEmits /\ ((isDrawing \/ isDrawing') => boxIsLastEmitted)]_vars

\* C29, amended: as stated while the selector is enabled; a selector disabled during a
\* drag stays in state drawing and its pointer-moves set and pass nothing
C29_LiveBoxEmitted ==
    /\ [](isDrawing => \A x \in SelXs, y \in SelYs :
                          /\ (enabled /\ selInsideImage(x, y)) => mouseMoveDraws(x, y)
                          /\ ~enabled => ~mouseMoveDraws(x, y))
    /\ [][(enabled => everyMoveEmits) /\ ((isDrawing \/ isDrawing') => boxIsLastEmitted)]_vars

\* a drag has ended with a pointer-up that passed the box held, which spans the start
\* point and the last pointer position of the drag, two different points
C29_Witness ==
    /\ ~isDrawing
    /\ bbox # <<>>
    /\ boxIsNumeric(bbox[1])
    /\ onBboxChangeCalls = <<bbox>>
    /\ spans(bbox[1], startPos[1], currentPos[1])
    /\ startPos[1].originalX # currentPos[1].originalX
    /\ startPos[1].originalY # currentPos[1].originalY

\* the geometry the overlay maps with, and the geometry the selector maps with, has a
\* zero (or not yet measured) display or original side
overlayGeometryUnavailable ==
    \/ imageInfo.displayWidth = 0 \/ imageInfo.displayHeight = 0
    \/ imageWidth = 0 \/ imageHeight = 0
selectorGeometryUnavailable ==
    \/ selImgRect.width = 0 \/ selImgRect.height = 0
    \/ originalImageSize.width = 0 \/ originalImageSize.height = 0

\* without geometry the overlay gives no display rect, renders no region and its hit
\* test hovers none
overlayUndefinedWithoutGeometry ==
    overlayGeometryUnavailable =>
        /\ \A i \in 1..Len(objects) :
              /\ getDisplayBbox(objects[i].bbox) = <<>>
              /\ ~isRendered(i)
        /\ \A mouseX \in MouseXs, mouseY \in MouseYs : hitTest(mouseX, mouseY) = Null

\* without geometry the selector maps no pointer position and starts no drag
selectorUndefinedWithoutGeometry ==
    selectorGeometryUnavailable =>
        \A x \in SelXs, y \in SelYs :
            /\ getRelativeCoordinates(x, y) = <<>>
            /\ ~mouseDownStartsDrag(x, y)

\* C30: whenever a display side or an original side is zero or not yet measured, no
\* mapping divides by zero: the overlay produces no display rect (nothing rendered, no
\* region hovered) and the selector maps no pointer position and starts no drag
C30_NoMappingWithoutGeometry ==
    overlayUndefinedWithoutGeometry /\ selectorUndefinedWithoutGeometry

\* the stored geometry is the live geometry of the image element
geometryFresh ==
    imageInfo = [displayWidth |-> imgRect.width, displayHeight |-> imgRect.height,
                 offsetX |-> imgRect.offsetX, offsetY |-> imgRect.offsetY]

\* the events after which the geometry is recomputed in the code: the image's load
\* event or a resize of the window, and a change of the region list
geometryFreshAfterListenedEvents ==
    [][(GeometryEvent \/ IsSetObjects) => geometryFresh']_vars

\* C31: after the image has finished loading, after the container has been resized
\* (the rect of the laid-out and measured image element has changed with it) and
\* after the region list has changed, the stored geometry equals the live geometry of the image
\* element in the state in which the next render or hit test takes place
C31_GeometryFreshAfterEvents ==
    [][(\/ GeometryEvent
        \/ IsSetObjects
        \/ imgRect.width > 0 /\ geometryFresh /\ \E g \in Geoms : Reflow(g))
          => geometryFresh']_vars

\* the outcomes of an upload rejected by validateImageFile, by validateImageDimensions
\* or by the size check after the resize
RejectedOutcomes == {"InvalidType", "TooLarge", "TooSmall", "ReadFailed", "StillTooLarge"}

uploadRejected ==
    uploadResult # <<>> /\ uploadResult[1].outcome \in RejectedOutcomes

\* a processImageFile invocation has started or has moved on without reaching setImage
uploadAdvances == \E p \in procs' \ procs : p.pc # "detect"

\* C32: a step that ends the processing of an uploaded file with a validation error or
\* with the size check after the resize failing issues no detection request, leaves no
\* invocation for that file behind (nothing retries it), and leaves the image, the
\* preview, the region list and the search results as they were; the steps of the
\* upload before that one leave them as they were too.
C32_RejectedUploadLeavesState ==
    [][(uploadRejected' \/ uploadAdvances)
          => /\ detectCalls' = <<>>
             /\ uploadRejected' => \A p \in procs' : p.file # uploadResult'[1].file
             /\ UNCHANGED <<image, preview, detectedObjects, searchResults>>]_vars

\* a resized file has just been rejected for its size while results of a search are shown
C32_Witness ==
    /\ uploadResult # <<>> /\ uploadResult[1].outcome = "StillTooLarge"
    /\ searchResults # <<>>
    /\ procs = {}

\* line 270: the size the upload area states, "up to 15MB"
StatedMaxSizeMB == 15

\* an image file as the upload area describes it
acceptableAsStated(file) ==
    /\ startsWithImage(file.type)
    /\ file.size <= StatedMaxSizeMB * MiB
    /\ file.decodes
    /\ file.width >= minDimension /\ file.height >= minDimension

\* C33: an upload of an image file (image MIME type, at least 400 x 400 px) of any size
\* up to the 15MB the upload area states does not end with the file rejected for its
\* size.
C33_StatedSizeAccepted ==
    (uploadResult # <<>> /\ acceptableAsStated(uploadResult[1].file))
        => uploadResult[1].outcome \notin {"TooLarge", "StillTooLarge"}

\* C34: once no search request is in flight, the hits shown under "Showing results for:
\* <selectedCategory>" are those returned for the region selected last: the request
\* they answer has the displayed category.
C34_ResultsMatchLastSelection ==
    (searches = <<>> /\ selectedCategory # <<>> /\ searchResults # <<>>)
        => searchResults[1].category = selectedCategory[1]

\* with no search request in flight the results panel does not show its spinner
searchIdleNotLoading == searches = <<>> => ~searchLoading

\* C36: searchLoading is true in every state in which a search request is in flight.
C36_LoadingWhileInFlight == searches # <<>> => searchLoading

\* the preview shows the stored image file
previewOfImage == preview # <<>> => preview = image

\* the region list is the one detected in the stored image file
regionsOfImage == detectedObjects # <<>> => detectedObjects = image

\* C35: in every state the region list, the preview and the stored image file come
\* from the same upload: a preview is the preview of the stored file and a non-empty
\* region list is the one detected in the stored file, so the response for an image
\* that has since been removed or replaced has not been applied.
C35_SameUpload == previewOfImage /\ regionsOfImage

\* a preview is shown over the regions of another upload
staleRegionsShown == preview # <<>> /\ detectedObjects # <<>> /\ detectedObjects # preview

\* C37: every file passed to detectAndSegmentObjects is at least 400 x 400 px: the
\* minimum that validateImageDimensions enforces on the user's file still holds for
\* the file that preprocessImage(file, 1920, 0.85) makes of it.
C37_DetectedImageMeetsMinimum ==
    \A k \in 1..Len(detectCalls) :
        detectCalls[k].width >= minDimension /\ detectCalls[k].height >= minDimension

\* files that are not resized reach detection with the sides that were validated
unresizedMeetsMinimum ==
    \A k \in 1..Len(detectCalls) :
        detectCalls[k].encoding = "original"
            => detectCalls[k].width >= minDimension /\ detectCalls[k].height >= minDimension

\* the object ids of the current region list
objectIds == {objects[i].object_id : i \in 1..Len(objects)}

\* the selection is none or a region of the current list
selectionInList == clickedObjectId \in objectIds \cup {Null}

\* C38: in every reachable state hoveredObjectId and clickedObjectId are each null or
\* the object_id of a region of the current region list.
C38_HoverAndSelectionInList ==
    /\ hoveredObjectId \in objectIds \cup {Null}
    /\ selectionInList

====
